---- MODULE Spec2Model ----
(***************************************************************************)
(* Model of the two configuration units of the repository:                 *)
(*   - vite.config.js : the dev-server proxy rule table (server.proxy)     *)
(*   - Dockerfile     : the image build recipe and its startup command     *)
(* Strings that are matched or concatenated character by character (URL    *)
(* paths, proxy contexts) are sequences of one-character strings.          *)
(***************************************************************************)
EXTENDS Integers, Sequences, FiniteSets, TLC

(* ------------------------------ bounds --------------------------------- *)
MaxReq == 2          \* concurrent requests at the dev server
MaxSuffixLen == 1    \* characters appended to a base path
MaxStarts == 2       \* container starts of one image

(* ------------------------------ strings -------------------------------- *)
StartsWith(s, p) == Len(s) >= Len(p) /\ SubSeq(s, 1, Len(p)) = p

RECURSIVE SeqsUpTo(_, _)
SeqsUpTo(A, n) ==
  IF n = 0 THEN {<<>>}
  ELSE LET S == SeqsUpTo(A, n - 1)
       IN  S \cup {Append(s, a) : s \in {t \in S : Len(t) = n - 1}, a \in A}

(* The literal prefixes and origin the claims speak of. *)
LitTranscribe == <<"/","t","r","a","n","s","c","r","i","b","e">>
LitProcessContent == <<"/","p","r","o","c","e","s","s","_","c","o","n","t","e","n","t">>
LitOrigin == <<"http:", "//", "localhost", ":", "8000">>
LitProxied(url) == StartsWith(url, LitTranscribe) \/ StartsWith(url, LitProcessContent)

(* Request URLs (path + query) the clients send: paths that begin with one
   of the contexts, followed by up to MaxSuffixLen further characters, and
   paths that do not. *)
ProxiedPaths ==
  { <<"/","t","r","a","n","s","c","r","i","b","e">>,
    <<"/","p","r","o","c","e","s","s","_","c","o","n","t","e","n","t">> }
OtherPaths ==
  { <<"/","T","r","a","n","s","c","r","i","b","e">>,
    <<"/","a","p","i","/","t","r","a","n","s","c","r","i","b","e">>,
    <<"/">> }
SuffixChars == {"?"}
Urls ==
  {b \o s : b \in ProxiedPaths, s \in SeqsUpTo(SuffixChars, MaxSuffixLen)}
    \cup OtherPaths

(* --------------------------- vite.config.js ---------------------------- *)
\* A table in which the second rule is missing.
proxy_missingRule ==
  << [context |-> <<"/","t","r","a","n","s","c","r","i","b","e">>,
      target |-> <<"http:", "//", "localhost", ":", "8000">>] >>

\* A table whose targets name another port.
proxy_wrongPort ==
  << [context |-> <<"/","t","r","a","n","s","c","r","i","b","e">>,
      target |-> <<"http:", "//", "localhost", ":", "8080">>],
     [context |-> <<"/","p","r","o","c","e","s","s","_","c","o","n","t","e","n","t">>,
      target |-> <<"http:", "//", "localhost", ":", "8080">>] >>

\* A table with a context that is too short.
proxy_shortContext ==
  << [context |-> <<"/">>,
      target |-> <<"http:", "//", "localhost", ":", "8000">>],
     [context |-> <<"/","p","r","o","c","e","s","s","_","c","o","n","t","e","n","t">>,
      target |-> <<"http:", "//", "localhost", ":", "8000">>] >>

\* A table whose contexts overlap and lead to different targets.
proxy_overlap ==
  << [context |-> <<"/","t","r","a","n","s","c","r","i","b","e">>,
      target |-> <<"http:", "//", "localhost", ":", "8000">>],
     [context |-> <<"/","t","r","a","n","s","c","r","i","b">>,
      target |-> <<"http:", "//", "localhost", ":", "9000">>] >>

\* server.proxy: the rule table, in declaration order (context, target).
proxy ==
  << [context |-> <<"/","t","r","a","n","s","c","r","i","b","e">>,
      target |-> <<"http:", "//", "localhost", ":", "8000">>],
     [context |-> <<"/","p","r","o","c","e","s","s","_","c","o","n","t","e","n","t">>,
      target |-> <<"http:", "//", "localhost", ":", "8000">>] >>

(* ------------------- dev server: proxy middleware ---------------------- *)
\* A context that does not start with "^" is matched as a plain prefix.
doesProxyContextMatchUrl(context, url) == StartsWith(url, context)

\* Index of the first rule, in the given order, whose context matches; 0 if none.
FirstMatch(table, order, url) ==
  LET hits == {k \in 1..Len(order) : doesProxyContextMatchUrl(table[order[k]].context, url)}
  IN  IF hits = {} THEN 0
      ELSE order[CHOOSE k \in hits : \A j \in hits : k <= j]

DeclaredOrder(table) == [k \in 1..Len(table) |-> k]

\* The outgoing URL is the target followed by the request URL as received.
ForwardUrl(target, url) == target \o url

NoResponse == [kind |-> "none", status |-> 0, body |-> "none"]
NoUrl == <<>>

\* What the backend can answer.
BackendResponses ==
  { [kind |-> "backend", status |-> 200, body |-> "{text:ok}"],
    [kind |-> "backend", status |-> 500, body |-> "error"] }

\* What the dev server's own handling can answer.
LocalResponses == { [kind |-> "local", status |-> 404, body |-> "none"] }

\* A relay that replaces the backend's status.
Relay_rewritesStatus(resp) == [kind |-> "relayed", status |-> 200, body |-> resp.body]

\* The backend's response is piped to the client as it is.
Relay(resp) == [kind |-> "relayed", status |-> resp.status, body |-> resp.body]

\* The response the error handler of the proxy writes.
ProxyErrorResponse == [kind |-> "proxy_error", status |-> 500, body |-> "none"]

IdleReq ==
  [stage |-> "idle", url |-> NoUrl,
   decision |-> "none", rule |-> 0, outUrl |-> NoUrl,
   attempts |-> 0, connected |-> "pending",
   upstream |-> NoResponse, response |-> NoResponse]

ReqIds == 1..MaxReq

VARIABLES
  proxies,      \* the rule table the running dev server holds
  reqs,         \* the requests at the dev server, by id
  backendUp,    \* whether the backend origin accepts connections
  decided       \* url -> set of <<decision, target>> the middleware has taken

proxyVars == <<proxies, reqs, backendUp, decided>>

VARIABLES
  tree,        \* the files present under frontend/ in the build context
  pc,          \* index of the next instruction of the recipe
  running,     \* index of the instruction in progress, 0 if none
  status,      \* "building", "failed" or "done"
  image,       \* the image under construction
  produced,    \* the image the build has produced, NoImage if none
  npmStatus,   \* "none", "ok" or "error": how npm install ended
  log,         \* the build events: <<"start" | "finish" | "fail", step name>>
  container,   \* "none", "running" or "exited"
  servers,     \* the dev-server processes of the container
  starts       \* how many times the container has been started

buildVars == <<tree, pc, running, status, image, produced, npmStatus, log,
               container, servers, starts>>
vars == <<proxies, reqs, backendUp, decided, tree, pc, running, status, image,
          produced, npmStatus, log, container, servers, starts>>

ProxyInit ==
  /\ proxies = proxy
  /\ reqs = [i \in ReqIds |-> IdleReq]
  /\ backendUp \in BOOLEAN
  /\ decided = [u \in Urls |-> {}]

\* A client sends a request to the dev server.
Arrive(i) ==
  /\ reqs[i].stage = "idle"
  /\ \E u \in Urls :
       reqs' = [reqs EXCEPT ![i] = [@ EXCEPT !.stage = "received", !.url = u]]
  /\ UNCHANGED <<proxies, backendUp, decided, buildVars>>

\* The proxy middleware: first matching rule forwards, otherwise next().
viteProxyMiddleware(i) ==
  /\ reqs[i].stage = "received"
  /\ LET r == reqs[i]
         k == FirstMatch(proxies, DeclaredOrder(proxies), r.url)
     IN  IF k # 0
         THEN /\ reqs' = [reqs EXCEPT ![i] =
                   [@ EXCEPT !.stage = "forwarding", !.decision = "forward",
                             !.rule = k,
                             !.outUrl = ForwardUrl(proxies[k].target, r.url),
                             !.attempts = @ + 1]]
              /\ decided' = [decided EXCEPT ![r.url] =
                   @ \cup {<<"forward", proxies[k].target>>}]
         ELSE /\ reqs' = [reqs EXCEPT ![i] =
                   [@ EXCEPT !.stage = "next", !.decision = "next"]]
              /\ decided' = [decided EXCEPT ![r.url] = @ \cup {<<"next", NoUrl>>}]
  /\ UNCHANGED <<proxies, backendUp, buildVars>>

\* The backend answers the forwarded request and the proxy passes the answer
\* on to the client.
ProxyResponse(i) ==
  /\ reqs[i].stage = "forwarding"
  /\ backendUp
  /\ \E resp \in BackendResponses :
       reqs' = [reqs EXCEPT ![i] =
                  [@ EXCEPT !.stage = "responded", !.connected = "ok",
                            !.upstream = resp, !.response = Relay(resp)]]
  /\ UNCHANGED <<proxies, backendUp, decided, buildVars>>

\* The connection to the target is refused: the proxy's error handler answers
\* the client.
ProxyError(i) ==
  /\ reqs[i].stage = "forwarding"
  /\ ~backendUp
  /\ reqs' = [reqs EXCEPT ![i] =
       [@ EXCEPT !.stage = "responded", !.connected = "refused",
                 !.response = ProxyErrorResponse]]
  /\ UNCHANGED <<proxies, backendUp, decided, buildVars>>

\* No rule matched: the dev server's default handling answers.
DefaultHandling(i) ==
  /\ reqs[i].stage = "next"
  /\ \E resp \in LocalResponses :
       reqs' = [reqs EXCEPT ![i] = [@ EXCEPT !.stage = "responded", !.response = resp]]
  /\ UNCHANGED <<proxies, backendUp, decided, buildVars>>

\* The backend origin goes down or comes up.
BackendToggle ==
  /\ backendUp' = ~backendUp
  /\ UNCHANGED <<proxies, reqs, decided, buildVars>>

ProxyStep ==
  \/ \E i \in ReqIds : Arrive(i)
  \/ \E i \in ReqIds : viteProxyMiddleware(i)
  \/ \E i \in ReqIds : ProxyResponse(i)
  \/ \E i \in ReqIds : ProxyError(i)
  \/ \E i \in ReqIds : DefaultHandling(i)
  \/ BackendToggle

(* ------------------------------ Dockerfile ----------------------------- *)
\* Files that may be present under frontend/ in the build context.
ContextFiles ==
  { <<"frontend", "package.json">>, <<"frontend", "package-lock.json">>,
    <<"frontend", "index.html">>, <<"frontend", "vite.config.js">> }
ManifestFile == <<"frontend", "package.json">>
LockFile == <<"frontend", "package-lock.json">>
ImageFiles == {"package.json", "package-lock.json", "index.html", "vite.config.js",
               "node_modules"}

\* A recipe that copies the source before installing.
Dockerfile_reordered ==
  << [op |-> "FROM", args |-> <<"node:20-slim">>],
     [op |-> "WORKDIR", args |-> <<"/app">>],
     [op |-> "COPY", args |-> <<"frontend", "package.json", ".">>],
     [op |-> "COPY", args |-> <<"frontend", ".", ".">>],
     [op |-> "RUN", args |-> <<"npm", "install">>],
     [op |-> "EXPOSE", args |-> <<"5173">>],
     [op |-> "CMD", args |-> <<"npm", "run", "dev", "--", "--host", "0.0.0.0">>] >>

\* A recipe whose install step ignores the exit status of npm.
Dockerfile_ignoreExit ==
  << [op |-> "FROM", args |-> <<"node:20-slim">>],
     [op |-> "WORKDIR", args |-> <<"/app">>],
     [op |-> "COPY", args |-> <<"frontend", "package.json", ".">>],
     [op |-> "RUN", args |-> <<"npm", "install", "||", "true">>],
     [op |-> "COPY", args |-> <<"frontend", ".", ".">>],
     [op |-> "EXPOSE", args |-> <<"5173">>],
     [op |-> "CMD", args |-> <<"npm", "run", "dev", "--", "--host", "0.0.0.0">>] >>

\* A recipe whose startup command does not pass the host.
Dockerfile_noHost ==
  << [op |-> "FROM", args |-> <<"node:20-slim">>],
     [op |-> "WORKDIR", args |-> <<"/app">>],
     [op |-> "COPY", args |-> <<"frontend", "package.json", ".">>],
     [op |-> "RUN", args |-> <<"npm", "install">>],
     [op |-> "COPY", args |-> <<"frontend", ".", ".">>],
     [op |-> "EXPOSE", args |-> <<"5173">>],
     [op |-> "CMD", args |-> <<"npm", "run", "dev">>] >>

\* The recipe, one record per instruction, in the order of the file.  A COPY
\* source "frontend/x" is written <<"frontend", "x">>, followed by the target.
Dockerfile ==
  << [op |-> "FROM", args |-> <<"node:20-slim">>],
     [op |-> "WORKDIR", args |-> <<"/app">>],
     [op |-> "COPY", args |-> <<"frontend", "package.json", ".">>],
     [op |-> "RUN", args |-> <<"npm", "install">>],
     [op |-> "COPY", args |-> <<"frontend", ".", ".">>],
     [op |-> "EXPOSE", args |-> <<"5173">>],
     [op |-> "CMD", args |-> <<"npm", "run", "dev", "--", "--host", "0.0.0.0">>] >>

\* The name the recipe's comments give each step.
StepName(instr) ==
  IF instr.op = "FROM" THEN "base image"
  ELSE IF instr.op = "WORKDIR" THEN "working directory"
  ELSE IF instr.op = "COPY" /\ instr.args[2] = "package.json" THEN "manifest copy"
  ELSE IF instr.op = "COPY" THEN "source copy"
  ELSE IF instr.op = "RUN" THEN "dependency install"
  ELSE IF instr.op = "EXPOSE" THEN "port declaration"
  ELSE "startup command"

EmptyImage ==
  [base |-> "none", workdir |-> "/", fs |-> [n \in ImageFiles |-> "absent"],
   exposed |-> {}, cmd |-> <<>>]
NoImage == [EmptyImage EXCEPT !.base = "no image"]

\* The context files a COPY source names: one file, or all files of a directory.
CopySources(args, ctx) ==
  IF args[2] = "." THEN {f \in ctx : f[1] = args[1]}
  ELSE {f \in ctx : f = <<args[1], args[2]>>}

\* COPY fails when its source names a file that is not in the context.
CopyOk(args, ctx) == args[2] = "." \/ CopySources(args, ctx) # {}

\* Copied files replace what the image holds under the same name.
CopyInto(fs, args, ctx) ==
  [n \in ImageFiles |->
     IF \E f \in CopySources(args, ctx) : f[2] = n THEN "host" ELSE fs[n]]

\* Exit status of the RUN command line, given npm's own exit status.
ShellExit(args, npmExit) ==
  IF Len(args) >= 2 /\ SubSeq(args, Len(args) - 1, Len(args)) = <<"||", "true">>
  THEN 0 ELSE npmExit

\* npm install: installs the platform's modules and writes a lock file when
\* the working directory has none; a failed install leaves the files as they were.
NpmInstall(fs, npmExit) ==
  IF npmExit # 0 THEN fs
  ELSE [fs EXCEPT !["node_modules"] = "npm",
                  !["package-lock.json"] = IF @ = "absent" THEN "npm" ELSE @]

\* One instruction applied to the image under construction.
Exec(instr, img, ctx, npmExit) ==
  IF instr.op = "FROM" THEN [ok |-> TRUE, img |-> [img EXCEPT !.base = instr.args[1]]]
  ELSE IF instr.op = "WORKDIR"
    THEN [ok |-> TRUE, img |-> [img EXCEPT !.workdir = instr.args[1]]]
  ELSE IF instr.op = "COPY"
    THEN [ok |-> CopyOk(instr.args, ctx),
          img |-> [img EXCEPT !.fs = CopyInto(@, instr.args, ctx)]]
  ELSE IF instr.op = "RUN"
    THEN [ok |-> ShellExit(instr.args, npmExit) = 0,
          img |-> [img EXCEPT !.fs = NpmInstall(@, npmExit)]]
  ELSE IF instr.op = "EXPOSE"
    THEN [ok |-> TRUE, img |-> [img EXCEPT !.exposed = @ \cup {instr.args[1]}]]
  ELSE [ok |-> TRUE, img |-> [img EXCEPT !.cmd = instr.args]]

\* The image a build of the whole recipe yields when no step fails.
RECURSIVE BuildFrom(_, _, _)
BuildFrom(k, img, ctx) ==
  IF k > Len(Dockerfile) THEN img
  ELSE BuildFrom(k + 1, Exec(Dockerfile[k], img, ctx, 0).img, ctx)

(* ------------------------- container start ----------------------------- *)
\* The "dev" script of frontend/package.json.
DevScript == <<"vite">>

\* Port the dev server listens on when the configuration names none.
DefaultPort == "5173"

\* npm run <script> -- <args>: the script's command line with the extra arguments.
NpmRun(cmd) ==
  IF Len(cmd) >= 3 /\ SubSeq(cmd, 1, 3) = <<"npm", "run", "dev">>
  THEN IF Len(cmd) >= 4 /\ cmd[4] = "--"
       THEN DevScript \o SubSeq(cmd, 5, Len(cmd))
       ELSE DevScript \o SubSeq(cmd, 4, Len(cmd))
  ELSE cmd

\* The address the dev server binds: the value of --host, else localhost.
HostOf(argv) ==
  IF \E k \in 1..(Len(argv) - 1) : argv[k] = "--host"
  THEN argv[1 + CHOOSE k \in 1..(Len(argv) - 1) : argv[k] = "--host"]
  ELSE "localhost"

\* The dev-server processes the startup command launches.
Launch(cmd) ==
  LET argv == NpmRun(cmd)
  IN  IF Len(argv) >= 1 /\ argv[1] = "vite"
      THEN << [host |-> HostOf(argv), port |-> DefaultPort] >>
      ELSE << >>

BuildStart(t) ==
  /\ tree = t
  /\ pc = 1
  /\ running = 0
  /\ status = "building"
  /\ image = EmptyImage
  /\ produced = NoImage
  /\ npmStatus = "none"
  /\ log = <<>>
  /\ container = "none"
  /\ servers = <<>>
  /\ starts = 0

\* An instruction starts once the previous one is over.
StepStart ==
  /\ status = "building"
  /\ running = 0
  /\ pc <= Len(Dockerfile)
  /\ running' = pc
  /\ log' = Append(log, <<"start", StepName(Dockerfile[pc])>>)
  /\ UNCHANGED <<tree, pc, status, image, produced, npmStatus, container,
                 servers, starts, proxyVars>>

\* The instruction in progress ends: the build goes on, or aborts.
StepFinish ==
  /\ running # 0
  /\ \E npmExit \in (IF Dockerfile[running].op = "RUN" THEN {0, 1} ELSE {0}) :
       LET instr == Dockerfile[running]
           res == Exec(instr, image, tree, npmExit)
       IN  /\ npmStatus' = IF instr.op = "RUN"
                           THEN (IF npmExit = 0 THEN "ok" ELSE "error")
                           ELSE npmStatus
           /\ IF res.ok
              THEN /\ image' = res.img
                   /\ pc' = pc + 1
                   /\ status' = IF pc = Len(Dockerfile) THEN "done" ELSE "building"
                   /\ produced' = IF pc = Len(Dockerfile) THEN res.img ELSE produced
                   /\ log' = Append(log, <<"finish", StepName(instr)>>)
              ELSE /\ status' = "failed"
                   /\ log' = Append(log, <<"fail", StepName(instr)>>)
                   /\ UNCHANGED <<image, pc, produced>>
  /\ running' = 0
  /\ UNCHANGED <<tree, container, servers, starts, proxyVars>>

\* docker run / docker start: the startup command of the image is executed.
ContainerStart ==
  /\ produced # NoImage
  /\ container \in {"none", "exited"}
  /\ starts < MaxStarts
  /\ container' = "running"
  /\ servers' = Launch(produced.cmd)
  /\ starts' = starts + 1
  /\ UNCHANGED <<tree, pc, running, status, image, produced, npmStatus, log,
                 proxyVars>>

\* The container stops and its processes end.
ContainerStop ==
  /\ container = "running"
  /\ container' = "exited"
  /\ servers' = <<>>
  /\ UNCHANGED <<tree, pc, running, status, image, produced, npmStatus, log,
                 starts, proxyVars>>

BuildStep == StepStart \/ StepFinish \/ ContainerStart \/ ContainerStop

(* --------------------------- specifications ---------------------------- *)
\* The dev server with its requests; the recipe is not being built.
Init == ProxyInit /\ BuildStart(ContextFiles)
Next == ProxyStep
Spec == Init /\ [][Next]_vars

\* The dev server runs its handlers: a step of the server that stays possible is
\* taken.  Nothing obliges the backend to answer.
FairSpec ==
  /\ Spec
  /\ \A i \in ReqIds :
       /\ WF_vars(viteProxyMiddleware(i))
       /\ WF_vars(ProxyError(i))
       /\ WF_vars(DefaultHandling(i))

\* The image build and the containers started from it; no request is in flight.
BuildInit ==
  /\ proxies = proxy
  /\ reqs = [i \in ReqIds |-> IdleReq]
  /\ backendUp = TRUE
  /\ decided = [u \in Urls |-> {}]
  /\ \E t \in SUBSET ContextFiles : BuildStart(t)
BuildNext == BuildStep
BuildSpec == BuildInit /\ [][BuildNext]_vars

(* ------------------------------- claims -------------------------------- *)
Handled(r) == r.stage \notin {"idle", "received"}

\* C1: a request whose URL starts with /transcribe or /process_content is
\* forwarded, and the URL it is forwarded to is http://localhost:8000 followed by
\* the whole request URL, unchanged.
C1_ForwardsProxiedPaths ==
  \A i \in ReqIds :
    (Handled(reqs[i]) /\ LitProxied(reqs[i].url))
      => /\ reqs[i].decision = "forward"
         /\ reqs[i].outUrl = LitOrigin \o reqs[i].url

\* A request for /process_content? (prefix followed by a query) has been forwarded.
C1_Witness ==
  \E i \in ReqIds :
    /\ reqs[i].url = LitProcessContent \o <<"?">>
    /\ reqs[i].decision = "forward"
    /\ reqs[i].stage = "forwarding"

\* C2: a request whose URL starts with neither prefix (case-sensitively) is never
\* forwarded: it goes to the dev server's default handling and no connection
\* to the backend is attempted for it.
C2_NeverForwardsOtherPaths ==
  \A i \in ReqIds :
    (Handled(reqs[i]) /\ ~LitProxied(reqs[i].url))
      => /\ reqs[i].decision = "next"
         /\ reqs[i].attempts = 0
         /\ reqs[i].outUrl = NoUrl
         /\ reqs[i].connected = "pending"
         /\ reqs[i].upstream = NoResponse
         /\ reqs[i].response.kind \in {"none", "local"}

\* A request for /Transcribe has been answered by the default handling.
C2_Witness ==
  \E i \in ReqIds :
    /\ reqs[i].url = <<"/","T","r","a","n","s","c","r","i","b","e">>
    /\ reqs[i].stage = "responded"
    /\ reqs[i].response.kind = "local"

\* C3: the lock file has no effect on the build output: the image a build
\* produces equals the image built from the same source tree without
\* frontend/package-lock.json.
C3_LockFileHasNoEffect ==
  produced # NoImage => produced = BuildFrom(1, EmptyImage, tree \ {LockFile})

ClaimedOrder ==
  << "base image", "working directory", "manifest copy", "dependency install",
     "source copy", "port declaration", "startup command" >>

\* C4: the steps of a build run strictly in the declared order (base image,
\* working directory, manifest copy, dependency install, source copy, port
\* declaration, startup command), each starting only after the previous one
\* has finished.
C4_StepsInDeclaredOrder ==
  /\ Len(log) <= 2 * Len(ClaimedOrder)
  /\ \A k \in 1..Len(log) :
       /\ log[k][2] = ClaimedOrder[(k + 1) \div 2]
       /\ (k % 2 = 1) => log[k][1] = "start"
       /\ (k % 2 = 0) => log[k][1] \in {"finish", "fail"}
       /\ (k % 2 = 0 /\ k < Len(log)) => log[k][1] = "finish"
  /\ (running # 0) <=> (Len(log) % 2 = 1)

\* A build has run all seven steps.
C4_Witness == status = "done" /\ Len(log) = 14 /\ produced # NoImage

\* A proxied request is attempted once, is never handled locally, and a refused
\* connection is answered with the error response.
C5_Safe ==
  \A i \in ReqIds :
    (Handled(reqs[i]) /\ LitProxied(reqs[i].url))
      => /\ reqs[i].attempts = 1
         /\ reqs[i].decision = "forward"
         /\ reqs[i].response.kind # "local"
         /\ (reqs[i].connected = "refused" /\ reqs[i].stage = "responded")
              => /\ reqs[i].response.kind = "proxy_error"
                 /\ reqs[i].response.status >= 500

\* C5: when the backend is unreachable, a request to a proxied path gets the
\* proxy's explicit error response with a status; it is attempted exactly once,
\* never handled locally, and never left without a response.
C5_ErrorResponseOnUnreachableBackend ==
  /\ []C5_Safe
  /\ \A i \in ReqIds :
       (LitProxied(reqs[i].url) /\ reqs[i].stage = "forwarding" /\ [](~backendUp))
         ~> (reqs[i].stage = "responded" /\ reqs[i].response.kind = "proxy_error")

\* A request for /process_content got the error response after a refused connection.
C5_Witness ==
  \E i \in ReqIds :
    /\ reqs[i].url = LitProcessContent
    /\ reqs[i].connected = "refused"
    /\ reqs[i].stage = "responded"
    /\ reqs[i].response = ProxyErrorResponse
    /\ reqs[i].attempts = 1

\* C6: a build failure is fatal: when the manifest is missing at the manifest
\* copy or npm install fails, the build aborts at that step, no later step
\* runs and no image is produced.
C6_FailureAbortsBuild ==
  /\ \A k \in 1..Len(log) :
       ( log[k][1] # "start" /\
         \/ (log[k][2] = "manifest copy" /\ ManifestFile \notin tree)
         \/ (log[k][2] = "dependency install" /\ npmStatus = "error") )
         => /\ log[k][1] = "fail"
            /\ k = Len(log)
            /\ status = "failed"
  /\ status = "failed" => (produced = NoImage /\ container = "none" /\ running = 0)

\* A build has aborted at a failed npm install.
C6_Witness ==
  /\ status = "failed"
  /\ npmStatus = "error"
  /\ log[Len(log)] = <<"fail", "dependency install">>

\* C7: when the backend answers a forwarded request, the client receives the
\* backend's status and body unchanged, error responses included, after a
\* single attempt.
C7_ResponsePassedThrough ==
  \A i \in ReqIds :
    (reqs[i].stage = "responded" /\ reqs[i].upstream # NoResponse)
      => /\ reqs[i].response.status = reqs[i].upstream.status
         /\ reqs[i].response.body = reqs[i].upstream.body
         /\ reqs[i].attempts = 1

\* A request for /transcribe answered 200 {text:ok} by the backend has been relayed.
C7_Witness ==
  \E i \in ReqIds :
    /\ reqs[i].url = LitTranscribe
    /\ reqs[i].stage = "responded"
    /\ reqs[i].upstream = [kind |-> "backend", status |-> 200, body |-> "{text:ok}"]
    /\ reqs[i].response.status = 200

\* C8: a started container runs exactly one dev server, listening on 0.0.0.0
\* and on port 5173, the port the image exposes.
C8_OneServerOnAllInterfaces ==
  container = "running"
    => /\ Len(servers) = 1
       /\ servers[1].host = "0.0.0.0"
       /\ servers[1].port = "5173"
       /\ produced.exposed = {servers[1].port}

\* The container is running after its second start.
C8_Witness == container = "running" /\ starts = 2 /\ Len(servers) = 1

\* The rules looked up from the last to the first.
ReverseOrder(table) == [k \in 1..Len(table) |-> Len(table) + 1 - k]

\* No context is a prefix of another, and every decision taken for a URL is the
\* one the reverse lookup order gives.
C10_Inv ==
  /\ \A a, b \in 1..Len(proxies) :
       a # b => ~StartsWith(proxies[a].context, proxies[b].context)
  /\ \A u \in Urls : Cardinality(decided[u]) <= 1
  /\ \A i \in ReqIds :
       Handled(reqs[i]) =>
         LET k == FirstMatch(proxies, ReverseOrder(proxies), reqs[i].url)
         IN  /\ (reqs[i].decision = "forward") <=> (k # 0)
             /\ k # 0 => reqs[i].outUrl = ForwardUrl(proxies[k].target, reqs[i].url)
             /\ decided[reqs[i].url] =
                  {<<reqs[i].decision, IF k = 0 THEN NoUrl ELSE proxies[k].target>>}

\* C10: the rule table never changes, its contexts are distinct and none is a
\* prefix of another, and the decision for a URL is the same in either lookup
\* order and for every request with that URL.
C10_TableImmutableAndOrderFree ==
  /\ [][proxies' = proxies]_vars
  /\ []C10_Inv

\* Two interleaved requests for the same URL have both been decided.
C10_Witness ==
  /\ reqs[1].url = LitTranscribe
  /\ reqs[2].url = LitTranscribe
  /\ reqs[1].stage = "responded"
  /\ reqs[2].stage = "forwarding"
  /\ decided[LitTranscribe] = {<<"forward", LitOrigin>>}

====
